---- MODULE Spec2Model ----
(***************************************************************************)
(* The CSV -> PostgreSQL extractors of this repository:                    *)
(*   src/data_extractor.py  (COPY based load, driver "data_extractor")     *)
(*   src/main.py            (batched INSERT load, driver "main")           *)
(* A CSV snapshot is a header (a sequence of column names, each a sequence *)
(* of characters) and a sequence of rows (each a sequence of field         *)
(* tokens).  pandas.read_csv, psycopg2 and PostgreSQL are modelled by what *)
(* the drivers rely on: field-count handling, dtype inference, the         *)
(* semantics of CREATE TABLE IF NOT EXISTS, INSERT/COPY, commit, rollback. *)
(***************************************************************************)
EXTENDS Integers, Sequences, FiniteSets, TLC

VARIABLES
    driver,        \* which script's main() is running
    pc,            \* the next step of main()
    body,          \* the CSV snapshot the URL serves
    df,            \* self.df
    conn,          \* self.conn / self.db_connection: "none", "open", "closed"
    closeCalls,    \* calls of connection.close() in this run
    table,         \* the committed target table in the store
    steps,         \* the steps main() has called in this run, with their results
    createStmt,    \* the CREATE TABLE statement issued in this run
    loadStmt,      \* the INSERT / COPY statement built in this run, how often it
                   \* was executed and which execution the store rejected
    loadOutcomes,  \* what every load so far returned and what it persisted
    runs           \* the number of the current run

vars == <<driver, pc, body, df, conn, closeCalls, table, steps,
          createStmt, loadStmt, loadOutcomes, runs>>

(* ------------------------------ bounds -------------------------------- *)

MaxNameLen == 2

MaxRows == 3

MaxFields == 3

MaxRuns == 2

BigRows == 2500

(* batch_size of save_to_database *)
BatchSize == 1000

(* --------------------------- small helpers ---------------------------- *)

(* self.df = None *)
None == [kind |-> "None"]

(* the target table does not exist in the store *)
NoTable == [kind |-> "absent"]

Range(s) == {s[i] : i \in 1..Len(s)}

SeqsUpTo(S, n) == UNION {[1..k -> S] : k \in 0..n}

Max(a, b) == IF a >= b THEN a ELSE b

Min(a, b) == IF a <= b THEN a ELSE b

Distinct(s) == \A i, j \in 1..Len(s) : i # j => s[i] # s[j]

(* ------------------- characters and column names ---------------------- *)

(* The characters header names are built from: an upper-case letter, a    *)
(* lower-case letter, a blank, a punctuation mark and the underscore.     *)
Chars == {"A", "a", " ", "-", "_"}

(* str.lower() on one character *)
Lower(c) == IF c = "A" THEN "a" ELSE c

(* str.isalnum() on one character ("1" occurs in pandas' ".1" suffix) *)
IsAlnum(c) == c \in {"A", "a", "1"}

(* the characters str.strip() removes *)
IsSpace(c) == c = " "

RECURSIVE LStrip(_)
LStrip(s) == IF s # <<>> /\ IsSpace(Head(s)) THEN LStrip(Tail(s)) ELSE s

RECURSIVE RStrip(_)
RStrip(s) ==
    IF s # <<>> /\ IsSpace(s[Len(s)]) THEN RStrip(SubSeq(s, 1, Len(s) - 1)) ELSE s

(* str.strip() *)
Strip(s) == RStrip(LStrip(s))

(* data_extractor.py _sanitize_columns, one name:                         *)
(*   name = col.strip().lower()                                           *)
(*   name = ''.join(c if c.isalnum() or c == '_' else '_' for c in name)  *)
SanitizeExtractor(name) ==
    LET t == Strip(name)
        l == [i \in 1..Len(t) |-> Lower(t[i])]
    IN  [i \in 1..Len(l) |-> IF IsAlnum(l[i]) \/ l[i] = "_" THEN l[i] ELSE "_"]

(* main.py: col.replace(' ', '_').lower() *)
SanitizeMain(name) ==
    [i \in 1..Len(name) |-> Lower(IF name[i] = " " THEN "_" ELSE name[i])]

Sanitize(d, name) ==
    IF d = "data_extractor" THEN SanitizeExtractor(name) ELSE SanitizeMain(name)

SanitizeAll(d, cols) == [i \in 1..Len(cols) |-> Sanitize(d, cols[i])]

(* ------------------------ pandas.read_csv ----------------------------- *)

(* Field tokens.  "" is an empty field (pandas: NaN). *)
IntTokens == {"3", "4", "5"}

DecTokens == {"4.5"}

BoolTokens == {"true"}

NaTokens == {""}

TextTokens == {"abc"}

Tokens == IntTokens \cup DecTokens \cup BoolTokens \cup NaTokens \cup TextTokens

(* read_csv names a repeated header name "x", "x.1", "x.2", ... *)
MangleDupes(header) ==
    [i \in 1..Len(header) |->
        LET k == Cardinality({j \in 1..(i - 1) : header[j] = header[i]})
        IN  IF k = 0 THEN header[i]
            ELSE header[i] \o <<".", IF k = 1 THEN "1" ELSE "2">>]

(* read_csv skips blank lines (skip_blank_lines=True): a line holding     *)
(* nothing at all.                                                        *)
IsBlankLine(row) == row = <<>> \/ row = <<"">>

DataRows(b) == SelectSeq(b.rows, LAMBDA r : ~IsBlankLine(r))

Pad(row, w) == row \o [i \in 1..(w - Len(row)) |-> ""]

(* A dtype inference that looks at the first value of the column only. *)
InferDtype_FirstValueOnly(col) ==
    IF col = <<>> THEN "object"
    ELSE IF col[1] \in IntTokens THEN "int64"
    ELSE IF col[1] \in DecTokens \cup NaTokens THEN "float64"
    ELSE IF col[1] \in BoolTokens THEN "bool"
    ELSE "object"

(* The dtype read_csv infers for one column of tokens: it tries int64,    *)
(* float64, bool and falls back to object.  An empty field is NaN: it     *)
(* parses as a float, not as an int or a bool.  A column of no rows at    *)
(* all is object.                                                         *)
InferDtype(col) ==
    IF col = <<>> THEN "object"
    ELSE IF Range(col) \subseteq IntTokens THEN "int64"
    ELSE IF Range(col) \subseteq (IntTokens \cup DecTokens \cup NaTokens) THEN "float64"
    ELSE IF Range(col) \subseteq BoolTokens THEN "bool"
    ELSE "object"

Column(values, c) == [i \in 1..Len(values) |-> values[i][c]]

(* pd.read_csv(StringIO(text)): None when it raises (EmptyDataError for a *)
(* body without header, ParserError for a line with more fields than the  *)
(* lines before it).  The first data line fixes the table width: fields   *)
(* beyond the header's become the index; every shorter line is padded     *)
(* with NaN.                                                              *)
ReadCsv(b) ==
    LET h    == Len(b.header)
        rows == DataRows(b)
        w    == IF rows = <<>> THEN h ELSE Max(h, Len(rows[1]))
        lead == w - h
        vals == [i \in 1..Len(rows) |-> SubSeq(Pad(rows[i], w), lead + 1, w)]
    IN  IF h = 0 THEN None
        ELSE IF \E i \in 1..Len(rows) : Len(rows[i]) > w THEN None
        ELSE [kind    |-> "DataFrame",
              columns |-> MangleDupes(b.header),
              dtypes  |-> [c \in 1..h |-> InferDtype(Column(vals, c))],
              values  |-> vals]

(* type_map / type_mapping .get(str(dtype), 'TEXT') *)
PgType(dtype) ==
    CASE dtype = "int64" -> "INTEGER"
      [] dtype = "float64" -> "NUMERIC"
      [] dtype = "object" -> "TEXT"
      [] dtype = "bool" -> "BOOLEAN"
      [] dtype = "datetime64[ns]" -> "TIMESTAMP"
      [] OTHER -> "TEXT"

(* ------------------------------ the store ----------------------------- *)

IdName == <<"i", "d">>

ImportDateName == <<"i", "m", "p", "o", "r", "t", "_", "d", "a", "t", "e">>

(* CREATE TABLE ... (id SERIAL PRIMARY KEY, <cols>, import_date TIMESTAMP ...) *)
TableDefinition(cols) ==
    <<[name |-> IdName, type |-> "SERIAL"]>> \o cols
        \o <<[name |-> ImportDateName, type |-> "TIMESTAMP"]>>

ColumnNames(cols) == [i \in 1..Len(cols) |-> cols[i].name]

(* PostgreSQL rejects a definition naming a column twice or holding a     *)
(* zero-length quoted identifier.                                         *)
ValidDefinition(def) ==
    /\ Distinct(ColumnNames(def))
    /\ \A i \in 1..Len(def) : def[i].name # <<>>

(* CREATE TABLE without IF NOT EXISTS: an existing table is an error. *)
ExecCreate_NoIfNotExists(tbl, def) ==
    IF tbl = NoTable /\ ValidDefinition(def)
    THEN [ok |-> TRUE, table |-> [kind |-> "table", columns |-> def, rows |-> <<>>]]
    ELSE [ok |-> FALSE, table |-> tbl]

(* A create step that commits what it has when the store raises, instead *)
(* of rolling back: the rejected definition leaves a table behind.        *)
ExecCreate_NoRollback(tbl, def) ==
    IF tbl # NoTable THEN [ok |-> TRUE, table |-> tbl]
    ELSE [ok |-> ValidDefinition(def),
          table |-> [kind |-> "table", columns |-> def, rows |-> <<>>]]

(* cursor.execute(CREATE TABLE IF NOT EXISTS ...) followed by commit(),   *)
(* or by rollback() when the store raised.  An existing table is left as  *)
(* it is, whatever the new definition.                                    *)
ExecCreate(tbl, def) ==
    IF tbl # NoTable THEN [ok |-> TRUE, table |-> tbl]
    ELSE IF ValidDefinition(def)
         THEN [ok |-> TRUE, table |-> [kind |-> "table", columns |-> def, rows |-> <<>>]]
         ELSE [ok |-> FALSE, table |-> tbl]

(* An INSERT / COPY naming a column the table does not have is rejected   *)
(* whatever the rows.                                                     *)
ColumnsExist(tbl, names) ==
    /\ tbl # NoTable
    /\ Range(names) \subseteq Range(ColumnNames(tbl.columns))

NoStmt == [issued |-> FALSE, cols |-> <<>>]

(* ----------------------------- the steps ------------------------------ *)

Drivers == {"data_extractor", "main"}

(* The columns of the CREATE TABLE statement.  data_extractor.py pairs    *)
(* the sanitized df.columns with df.dtypes; main.py sanitizes each name   *)
(* of df.columns and looks its dtype up.                                  *)
CreateColumns(d, frame) ==
    [i \in 1..Len(frame.columns) |->
        [name |-> Sanitize(d, frame.columns[i]), type |-> PgType(frame.dtypes[i])]]

(* self.df after the create step: data_extractor.py's _sanitize_columns   *)
(* renames df.columns in place, main.py leaves the frame alone.           *)
DfAfterCreate(d, frame) ==
    IF d = "data_extractor"
    THEN [frame EXCEPT !.columns = SanitizeAll(d, frame.columns)]
    ELSE frame

(* A load that names df.columns as they are, without sanitizing them. *)
LoadColumnNames_Unsanitized(d, frame) == frame.columns

(* The column list of the COPY / INSERT statement: both scripts sanitize  *)
(* df.columns (again) in the load step and name the result.               *)
LoadColumnNames(d, frame) == SanitizeAll(d, frame.columns)

(* A loop that commits once, after its last batch: a rejected batch rolls *)
(* back every batch before it.                                            *)
BatchLoop_SingleCommit(values, i, rej, persisted) ==
    LET n == (Len(values) + BatchSize - 1) \div BatchSize
    IN  IF rej \in 1..n
        THEN [ok |-> FALSE, rows |-> <<>>, executed |-> rej]
        ELSE [ok |-> TRUE, rows |-> values, executed |-> n]

(* save_to_database's loop: one executemany and one commit per batch of   *)
(* batch_size rows; the batch the store rejects (number rej, 0 for none)  *)
(* raises, is rolled back and ends the loop.  i is range()'s offset.      *)
(* executed counts the executemany calls made.                            *)
RECURSIVE BatchLoop(_, _, _, _)
BatchLoop(values, i, rej, persisted) ==
    IF i >= Len(values)
    THEN [ok |-> TRUE, rows |-> persisted, executed |-> i \div BatchSize]
    ELSE LET batch == SubSeq(values, i + 1, Min(i + BatchSize, Len(values)))
         IN  IF (i \div BatchSize) + 1 = rej
             THEN [ok |-> FALSE, rows |-> persisted, executed |-> (i \div BatchSize) + 1]
             ELSE BatchLoop(values, i + BatchSize, rej, persisted \o batch)

(* bulk_insert's copy_expert and commit: one statement, all rows or none. *)
CopyExpert(values, rej) ==
    IF rej # 0 THEN [ok |-> FALSE, rows |-> <<>>, executed |-> 1]
    ELSE [ok |-> TRUE, rows |-> values, executed |-> 1]

RunLoad(d, values, rej) ==
    IF d = "data_extractor" THEN CopyExpert(values, rej) ELSE BatchLoop(values, 0, rej, <<>>)

(* The number of statements the load executes. *)
NumBatches(d, values) ==
    IF d = "data_extractor" THEN 1 ELSE (Len(values) + BatchSize - 1) \div BatchSize

(* Which execution the store may reject: the first one when the statement *)
(* names a column the table lacks; otherwise any that carries a row (a    *)
(* value the column's type or a constraint refuses), or none.             *)
RejectChoices(d, tbl, names, values) ==
    LET n == NumBatches(d, values)
    IN  IF values = <<>> /\ d = "main" THEN {0}
        ELSE IF ~ColumnsExist(tbl, names) THEN {1}
        ELSE IF values = <<>> THEN {0}
        ELSE 0..n

(* A driver whose fetch failure returns without the finally block. *)
AfterStepExtractor_NoFinally(op, ok) ==
    CASE op = "connect" -> IF ok THEN "fetch" ELSE "done"
      [] op = "fetch"   -> IF ok THEN "create" ELSE "done"
      [] op = "create"  -> IF ok THEN "load" ELSE "close"
      [] op = "load"    -> "close"

(* A driver that does not test create_table_if_not_exists's result. *)
AfterStepMain_IgnoresCreate(op, ok) ==
    CASE op = "connect" -> IF ok THEN "fetch" ELSE "done"
      [] op = "fetch"   -> IF ok THEN "create" ELSE "close"
      [] op = "create"  -> "load"
      [] op = "load"    -> "close"

(* main(): where control goes after a step returned ok.  A failed connect *)
(* returns before the try; every other return runs the finally block.     *)
AfterStepExtractor(op, ok) ==
    CASE op = "connect" -> IF ok THEN "fetch" ELSE "done"
      [] op = "fetch"   -> IF ok THEN "create" ELSE "close"
      [] op = "create"  -> IF ok THEN "load" ELSE "close"
      [] op = "load"    -> "close"

AfterStepMain(op, ok) ==
    CASE op = "connect" -> IF ok THEN "fetch" ELSE "done"
      [] op = "fetch"   -> IF ok THEN "create" ELSE "close"
      [] op = "create"  -> IF ok THEN "load" ELSE "close"
      [] op = "load"    -> "close"

AfterStep(d, op, ok) ==
    IF d = "data_extractor" THEN AfterStepExtractor(op, ok) ELSE AfterStepMain(op, ok)

Called(op, ok) == Append(steps, [op |-> op, ok |-> ok])

(* connect() / connect_to_database(): psycopg2.connect may raise. *)
Connect ==
    /\ pc = "connect"
    /\ \E ok \in BOOLEAN :
        /\ conn' = IF ok THEN "open" ELSE "none"
        /\ steps' = Called("connect", ok)
        /\ pc' = AfterStep(driver, "connect", ok)
    /\ UNCHANGED <<driver, body, df, closeCalls, table, createStmt, loadStmt,
                   loadOutcomes, runs>>

(* fetch_csv() / fetch_csv_data(): requests.get may raise or answer with  *)
(* an error status; read_csv may raise.  Every exception returns False    *)
(* and leaves self.df as it was.                                          *)
Fetch ==
    /\ pc = "fetch"
    /\ \E httpOk \in BOOLEAN :
        LET frame == IF httpOk THEN ReadCsv(body) ELSE None
            ok    == frame # None
        IN  /\ df' = IF ok THEN frame ELSE df
            /\ steps' = Called("fetch", ok)
            /\ pc' = AfterStep(driver, "fetch", ok)
    /\ UNCHANGED <<driver, body, conn, closeCalls, table, createStmt, loadStmt,
                   loadOutcomes, runs>>

(* create_table() / create_table_if_not_exists(table_name) *)
CreateTable ==
    /\ pc = "create"
    /\ IF conn # "open" \/ df = None
       THEN /\ steps' = Called("create", FALSE)
            /\ pc' = AfterStep(driver, "create", FALSE)
            /\ UNCHANGED <<df, table, createStmt>>
       ELSE LET cols == CreateColumns(driver, df)
                r    == ExecCreate(table, TableDefinition(cols))
            IN  /\ df' = DfAfterCreate(driver, df)
                /\ createStmt' = [issued |-> TRUE, cols |-> cols]
                /\ table' = r.table
                /\ steps' = Called("create", r.ok)
                /\ pc' = AfterStep(driver, "create", r.ok)
    /\ UNCHANGED <<driver, body, conn, closeCalls, loadStmt, loadOutcomes, runs>>

(* bulk_insert() / save_to_database(table_name) *)
Load ==
    /\ pc = "load"
    /\ IF conn # "open" \/ df = None
       THEN /\ steps' = Called("load", FALSE)
            /\ pc' = AfterStep(driver, "load", FALSE)
            /\ UNCHANGED <<df, table, loadStmt, loadOutcomes>>
       ELSE LET names == LoadColumnNames(driver, df)
            IN  \E rej \in RejectChoices(driver, table, names, df.values) :
                LET r == RunLoad(driver, df.values, rej)
                IN  /\ df' = [df EXCEPT !.columns = names]
                    /\ loadStmt' = [issued |-> TRUE, cols |-> names,
                                    executed |-> r.executed, rejected |-> rej]
                    /\ table' = IF r.rows = <<>> THEN table
                                ELSE [table EXCEPT !.rows = @ \o r.rows]
                    /\ loadOutcomes' = loadOutcomes \cup
                           {[driver |-> driver, ret |-> r.ok,
                             attempted |-> Len(df.values), persisted |-> Len(r.rows)]}
                    /\ steps' = Called("load", r.ok)
                    /\ pc' = AfterStep(driver, "load", r.ok)
    /\ UNCHANGED <<driver, body, conn, closeCalls, createStmt, runs>>

(* the finally block: close() / close_connection() *)
Close ==
    /\ pc = "close"
    /\ IF conn # "none"
       THEN conn' = "closed" /\ closeCalls' = closeCalls + 1
       ELSE UNCHANGED <<conn, closeCalls>>
    /\ pc' = "done"
    /\ UNCHANGED <<driver, body, df, table, steps, createStmt, loadStmt,
                   loadOutcomes, runs>>

(* The script is started again: a new process, the same store. *)
Restart ==
    /\ pc = "done"
    /\ runs < MaxRuns
    /\ runs' = runs + 1
    /\ driver' \in Drivers
    /\ pc' = "connect"
    /\ df' = None
    /\ conn' = "none"
    /\ closeCalls' = 0
    /\ steps' = <<>>
    /\ createStmt' = NoStmt
    /\ loadStmt' = NoStmt
    /\ UNCHANGED <<body, table, loadOutcomes>>

(* ------------------------------ inputs -------------------------------- *)

Names == SeqsUpTo(Chars, MaxNameLen) \ {<<>>}

Rows(n, row) == [i \in 1..n |-> row]

(* n rows whose integer field runs through "3", "4", "5", so that the     *)
(* batches of a load differ in content.                                   *)
CycleRows(n) ==
    [i \in 1..n |->
        <<"abc", CASE i % 3 = 1 -> "3" [] i % 3 = 2 -> "4" [] OTHER -> "5">>]

(* Snapshots of the pipeline runs: a sound header or one whose two names  *)
(* differ in case only, over no row, one row or BigRows rows (several     *)
(* batches of BatchSize).                                                 *)
PipelineBodies ==
    {[header |-> h, rows |-> CycleRows(n)] :
        h \in {<< <<"a">>, <<"_">> >>, << <<"A">>, <<"a">> >>},
        n \in {0, 1, BigRows}}

(* Every header of two names. *)
NameBodies ==
    {[header |-> <<n1, n2>>, rows |-> Rows(1, <<"abc", "3">>)] : n1, n2 \in Names}

(* Every column of up to MaxRows tokens, beside a text column. *)
TypeBodies ==
    {[header |-> << <<"a">>, <<"_">> >>,
      rows |-> [i \in 1..Len(col) |-> <<"abc", col[i]>>]] :
        col \in SeqsUpTo(Tokens, MaxRows)}

(* Lines of 0..MaxFields fields under a header of two names, and the      *)
(* empty body.                                                            *)
ParseBodies ==
    {[header |-> << <<"a">>, <<"_">> >>, rows |-> rs] :
        rs \in SeqsUpTo({Rows(k, "3") : k \in 0..MaxFields}, MaxRows)}
    \cup {[header |-> <<>>, rows |-> <<>>]}

(* The published snapshot changes between two runs. *)
SourceChanges ==
    /\ pc = "done"
    /\ runs < MaxRuns
    /\ body' \in PipelineBodies \ {body}
    /\ UNCHANGED <<driver, pc, df, conn, closeCalls, table, steps, createStmt,
                   loadStmt, loadOutcomes, runs>>

InitWith(bodies) ==
    /\ driver \in Drivers
    /\ pc = "connect"
    /\ body \in bodies
    /\ df = None
    /\ conn = "none"
    /\ closeCalls = 0
    /\ table = NoTable
    /\ steps = <<>>
    /\ createStmt = NoStmt
    /\ loadStmt = NoStmt
    /\ loadOutcomes = {}
    /\ runs = 1

Run == Connect \/ Fetch \/ CreateTable \/ Load \/ Close

Init == InitWith(PipelineBodies)

Next == Run \/ Restart \/ SourceChanges

(* Repeated runs of either script against one store. *)
Spec == Init /\ [][Next]_vars

InitNames == InitWith(NameBodies)

(* One run over every header. *)
SpecNames == InitNames /\ [][Run]_vars

InitTypes == InitWith(TypeBodies)

(* One run over every column of tokens. *)
SpecTypes == InitTypes /\ [][Run]_vars

InitParse == InitWith(ParseBodies)

(* One run over every shape of body. *)
SpecParse == InitParse /\ [][Run]_vars

(* ------------------------------ claims -------------------------------- *)

LastStep == steps[Len(steps)]

RunSucceeded == pc = "done" /\ Len(steps) = 4 /\ LastStep.ok

(* C1: in both drivers a failed step is the last step of the run, the     *)
(* create step is only called right after a successful fetch and the load *)
(* step only right after a successful create.                             *)
C1_ShortCircuit ==
    \A i \in 1..Len(steps) :
        /\ ~steps[i].ok => i = Len(steps)
        /\ steps[i].op = "fetch" =>
               i > 1 /\ steps[i - 1] = [op |-> "connect", ok |-> TRUE]
        /\ steps[i].op = "create" =>
               i > 1 /\ steps[i - 1] = [op |-> "fetch", ok |-> TRUE]
        /\ steps[i].op = "load" =>
               i > 1 /\ steps[i - 1] = [op |-> "create", ok |-> TRUE]

(* A run of main.py that ended on a failed create step. *)
C1_Witness ==
    /\ driver = "main"
    /\ pc = "done"
    /\ Len(steps) = 3
    /\ LastStep = [op |-> "create", ok |-> FALSE]

(* C2: a run that acquired the connection has closed it exactly once when *)
(* it ends, whichever step failed, and never closes it before or twice.   *)
C2_ReleasedOnce ==
    /\ closeCalls <= 1
    /\ pc \in {"connect", "fetch", "create", "load", "close"} => closeCalls = 0
    /\ (pc = "done" /\ steps # <<>> /\ steps[1].ok) =>
           (closeCalls = 1 /\ conn = "closed")
    /\ (pc = "done" /\ steps # <<>> /\ ~steps[1].ok) =>
           (closeCalls = 0 /\ conn = "none")

(* A run of data_extractor.py that ended on a failed load, connection closed. *)
C2_Witness ==
    /\ driver = "data_extractor"
    /\ pc = "done"
    /\ Len(steps) = 4
    /\ ~LastStep.ok
    /\ closeCalls = 1

(* C3: the create step run against a table that already exists returns   *)
(* success and leaves the table, its definition and its rows, as it was.  *)
C3_CreateIdempotent ==
    [][(pc = "create" /\ table # NoTable) => (table' = table /\ pc' = "load")]_vars

(* The second run's create step has succeeded on the table the first run  *)
(* created from the same definition.                                      *)
C3_Witness ==
    /\ runs = 2
    /\ pc = "load"
    /\ loadOutcomes # {}
    /\ createStmt.issued
    /\ table # NoTable
    /\ table.columns = TableDefinition(createStmt.cols)

(* C4: after every successful run the table holds exactly one row per     *)
(* data row of the dataset the run fetched.                               *)
C4_OneRowPerSourceRow ==
    RunSucceeded => Len(table.rows) = Len(df.values)

(* C5: the result the load step returns tells a load that persisted no    *)
(* row from one that persisted some: two loads of as many rows with the   *)
(* same result agree on whether anything was persisted.                   *)
C5_ResultTellsPersisted ==
    \A o1, o2 \in loadOutcomes :
        (o1.driver = o2.driver /\ o1.attempted = o2.attempted /\ o1.ret = o2.ret)
            => ((o1.persisted = 0) <=> (o2.persisted = 0))

(* C6: the load statement names the columns the create statement of the   *)
(* same run declared, in the same order.                                  *)
C6_SameColumnOrder ==
    loadStmt.issued => loadStmt.cols = ColumnNames(createStmt.cols)

(* data_extractor.py has sanitized a header twice, and sanitizing changed it. *)
C6_Witness ==
    /\ driver = "data_extractor"
    /\ loadStmt.issued
    /\ createStmt.issued
    /\ loadStmt.cols # body.header
    /\ Distinct(body.header)

(* C7: a header of pairwise distinct names yields pairwise distinct       *)
(* column names in the create statement.                                  *)
C7_SanitizedNamesUnique ==
    (createStmt.issued /\ Distinct(body.header)) =>
        Distinct(ColumnNames(createStmt.cols))

NonBlank(col) == SelectSeq(col, LAMBDA v : v \notin NaTokens)

(* C8: the type declared for a column that holds a non-empty value is the *)
(* type inferred for its non-empty values alone.                          *)
C8_BlanksDoNotInfluence ==
    createStmt.issued =>
        \A c \in 1..Len(createStmt.cols) :
            LET col == Column(df.values, c)
            IN  NonBlank(col) # <<>> =>
                    createStmt.cols[c].type = PgType(InferDtype(NonBlank(col)))

(* C9: a column of integers only is INTEGER, a column of integers and     *)
(* decimals holding a decimal is NUMERIC, a column holding an unparseable *)
(* value is TEXT; so for "3","4","5", then with "4.5", then with "abc".   *)
C9_Widening ==
    /\ PgType(InferDtype(<<"3", "4", "5">>)) = "INTEGER"
    /\ PgType(InferDtype(<<"3", "4", "5", "4.5">>)) = "NUMERIC"
    /\ PgType(InferDtype(<<"3", "4", "5", "4.5", "abc">>)) = "TEXT"
    /\ createStmt.issued =>
           \A c \in 1..Len(createStmt.cols) :
               LET col == Column(df.values, c)
                   t   == createStmt.cols[c].type
               IN  /\ (col # <<>> /\ Range(col) \subseteq IntTokens) => t = "INTEGER"
                   /\ (/\ Range(col) \subseteq IntTokens \cup DecTokens
                       /\ Range(col) \cap DecTokens # {}) => t = "NUMERIC"
                   /\ Range(col) \cap TextTokens # {} => t = "TEXT"

(* The create step has typed a column of an integer, a decimal and an     *)
(* unparseable value.                                                     *)
C9_Witness ==
    /\ createStmt.issued
    /\ Column(df.values, 2) = <<"3", "4.5", "abc">>
    /\ createStmt.cols[2].type = "TEXT"

(* C10: when the fetch step has produced a dataset, every data line of    *)
(* the body had the header's field count.                                 *)
C10_MismatchFailsFetch ==
    df # None =>
        \A i \in 1..Len(DataRows(body)) : Len(DataRows(body)[i]) = Len(body.header)

CreateCalls == {i \in 1..Len(steps) : steps[i].op = "create"}

(* C11: when the store has rejected the CREATE TABLE statement of a run,  *)
(* the create step returned failure, no table exists, the statement was   *)
(* issued once in that run and no further step follows.                   *)
C11_RejectedCreateLeavesNoTable ==
    (\E i \in CreateCalls : ~steps[i].ok) =>
        /\ createStmt.issued
        /\ ~ValidDefinition(TableDefinition(createStmt.cols))
        /\ table = NoTable
        /\ Cardinality(CreateCalls) = 1
        /\ LastStep = [op |-> "create", ok |-> FALSE]
        /\ pc \in {"close", "done"}

(* data_extractor.py's create step has just been rejected. *)
C11_Witness ==
    /\ driver = "data_extractor"
    /\ pc = "close"
    /\ createStmt.issued
    /\ LastStep = [op |-> "create", ok |-> FALSE]
    /\ table = NoTable

(* C12: when the store rejects batch k of save_to_database, the load adds *)
(* to the table exactly the rows of batches 1..k-1, in row order, has     *)
(* executed k batches and no more, and returns failure.                   *)
C12_BatchesCommittedInOrder ==
    [][(pc = "load" /\ driver = "main" /\ loadStmt'.issued /\ loadStmt'.rejected # 0) =>
          LET k == loadStmt'.rejected
          IN  /\ table # NoTable =>
                     /\ table' # NoTable
                     /\ table'.columns = table.columns
                     /\ table'.rows = table.rows \o SubSeq(df.values, 1, (k - 1) * BatchSize)
              /\ table = NoTable => table' = NoTable
              /\ loadStmt'.executed = k
              /\ steps' = Append(steps, [op |-> "load", ok |-> FALSE])
              /\ pc' = "close"]_vars

(* save_to_database has failed on its third batch: the first two batches  *)
(* of the 2,500 rows are in the table.                                    *)
C12_Witness ==
    /\ driver = "main"
    /\ pc = "close"
    /\ loadStmt.issued
    /\ loadStmt.rejected = 3
    /\ ~LastStep.ok
    /\ table # NoTable
    /\ table.rows = SubSeq(df.values, 1, 2 * BatchSize)
    /\ Len(df.values) = BigRows

====
